---- MODULE Spec2Model ----
(***************************************************************************)
(* Text submission application: the CRUD API over the TextSubmissions      *)
(* table (TextSubmissionController) and the Angular dashboard that caches  *)
(* the table in its submissions signal.                                    *)
(*                                                                         *)
(* A text is kept run-length encoded: lead whitespace characters, then a   *)
(* core of len characters that starts and ends with a non-whitespace       *)
(* character (tag tells two cores of the same length apart), then trail    *)
(* whitespace characters.  The length of the string is lead + len + trail, *)
(* so the program's own length limits (1000, 10, 50) are used unscaled.    *)
(***************************************************************************)
EXTENDS Integers, Sequences, FiniteSets, TLC

(* ------------------------------ bounds -------------------------------- *)
\* rows the table may hold at once
MaxRows == 2
\* ids the store hands out before the model stops creating
MaxId == 3
\* clock readings after the first
MaxTime == 1

(* --------------------------- program constants ------------------------ *)
\* [StringLength(1000)] on TextSubmissionRequest.Text
MaxTextLength == 1000

(* ------------------------------- texts -------------------------------- *)
NullText == [null |-> TRUE, lead |-> 0, tag |-> "", len |-> 0, trail |-> 0]

Str(lead, tag, len, trail) ==
    IF len = 0
    THEN [null |-> FALSE, lead |-> lead + trail, tag |-> "", len |-> 0, trail |-> 0]
    ELSE [null |-> FALSE, lead |-> lead, tag |-> tag, len |-> len, trail |-> trail]

Length(t) == t.lead + t.len + t.trail

\* String.trim(): the text without its leading and trailing whitespace
Trim(t) == Str(0, t.tag, t.len, 0)

\* string.IsNullOrWhiteSpace
IsNullOrWhiteSpace(t) == t.null \/ t.len = 0

\* the texts a caller of the API sends: null, "", blank, one character,
\* padded with whitespace to exactly the limit, one past the limit
ApiTexts ==
    { NullText,
      Str(0, "", 0, 0),
      Str(2, "", 0, 0),
      Str(0, "a", 1, 0),
      Str(2, "b", MaxTextLength - 4, 2),
      Str(0, "b", MaxTextLength + 1, 0) }

(* ------------------------ request validation -------------------------- *)
\* [Required]: null, empty and whitespace-only strings fail
RequiredAttributeAllowEmptyStrings(t) == ~t.null
RequiredAttribute(t) == ~IsNullOrWhiteSpace(t)

\* [StringLength(1000)]: null passes, a string passes up to the maximum
StringLengthAttribute(t) == t.null \/ Length(t) <= MaxTextLength

\* ModelState.IsValid for a bound TextSubmissionRequest
ModelStateIsValid(t) == RequiredAttribute(t) /\ StringLengthAttribute(t)

\* BadRequest(ModelState): the error of the first attribute that fails
ModelState(t) ==
    IF ~RequiredAttribute(t)
    THEN "The Text field is required."
    ELSE "Text cannot exceed 1000 characters"

(* ------------------------------ the store ----------------------------- *)
VARIABLES
    table,      \* TextSubmissions: the set of rows [id, text, createdAt]
    nextId,     \* the key the store assigns to the next inserted row
    now,        \* DateTime.UtcNow
    resp,       \* the response to the request a direct caller made last
    mounted,        \* Dashboard: ngOnInit has run
    submissions,    \* Dashboard.submissions
    isLoading,      \* Dashboard.isLoading
    errorMessage,   \* Dashboard.errorMessage
    editingId,      \* Dashboard.editingId
    editText,       \* Dashboard.editText
    net,            \* the client's HTTP requests in flight, in issue order
    textControl,    \* TextSubmissionForm.textForm: the value of the text control
    isSubmitting,   \* TextSubmissionForm.isSubmitting
    submitMessage,  \* TextSubmissionForm.submitMessage
    submitSuccess,  \* TextSubmissionForm.submitSuccess
    dashboardRefreshTrigger     \* App.dashboardRefreshTrigger

dashVars == <<mounted, submissions, isLoading, errorMessage, editingId, editText,
              net>>
formVars == <<textControl, isSubmitting, submitMessage, submitSuccess,
              dashboardRefreshTrigger>>
vars == <<table, nextId, now, resp, dashVars, formVars>>

\* ids a request may name; the table never holds all of them
Ids == 1..MaxId

\* editingId when no row is being edited
null == 0

TextSubmission(id, text, createdAt) == [id |-> id, text |-> text, createdAt |-> createdAt]

\* a response body: an error message, or the rows it carries (one row for
\* Create, Read and Update, the listing for ReadAll, none for Delete)
Message(m) == [message |-> m, rows |-> <<>>]
Rows(s) == [message |-> "", rows |-> s]
NoContent == Rows(<<>>)

\* DbSet.FindAsync(id): the rows with that key (none or one)
FindAsync(tbl, id) == { r \in tbl : r.id = id }

\* OrderByDescending(x => x.CreatedAt).ToListAsync(): every row once, newest
\* first; the order among rows of equal CreatedAt is the store's choice
Listings(tbl) ==
    { s \in [1..Cardinality(tbl) -> tbl] : { s[i] : i \in 1..Len(s) } = tbl }

OrderByDescendingAscending(tbl) ==
    { s \in Listings(tbl) :
        \A i \in 1..(Len(s) - 1) : s[i].createdAt <= s[i + 1].createdAt }
OrderByDescending(tbl) ==
    { s \in Listings(tbl) :
        \A i \in 1..(Len(s) - 1) : s[i].createdAt >= s[i + 1].createdAt }

(* ----------------------------- handlers ------------------------------- *)
\* Each handler yields [status, body, table]: the response and the table
\* it leaves.  storeUp = FALSE makes every store call throw; the handler's
\* catch turns the exception into a 500 with a fixed message.

Outcome(status, body, tbl) == [status |-> status, body |-> body, table |-> tbl]

\* GET api/TextSubmission
GetTextSubmissions(tbl, storeUp) ==
    IF ~storeUp
    THEN { Outcome(500, Message("An error occurred while retrieving submissions"), tbl) }
    ELSE { Outcome(200, Rows(s), tbl) : s \in OrderByDescending(tbl) }

\* GET api/TextSubmission/{id}
GetTextSubmission(tbl, id, storeUp) ==
    IF ~storeUp
    THEN Outcome(500, Message("An error occurred while retrieving the submission"), tbl)
    ELSE IF FindAsync(tbl, id) = {}
         THEN Outcome(404, Message("Text submission not found"), tbl)
         ELSE Outcome(200, Rows(<<CHOOSE r \in FindAsync(tbl, id) : TRUE>>), tbl)

\* POST api/TextSubmission
PostTextSubmissionCountKey(tbl, nid, clk, text, storeUp) ==
    IF ~ModelStateIsValid(text)
    THEN Outcome(400, Message(ModelState(text)), tbl)
    ELSE IF ~storeUp
         THEN Outcome(500, Message("An error occurred while saving the submission"), tbl)
         ELSE LET textSubmission == TextSubmission(Cardinality(tbl) + 1, text, clk)
              IN  Outcome(201, Rows(<<textSubmission>>), tbl \cup {textSubmission})
PostTextSubmissionTrimmed(tbl, nid, clk, text, storeUp) ==
    IF ~ModelStateIsValid(text)
    THEN Outcome(400, Message(ModelState(text)), tbl)
    ELSE IF ~storeUp
         THEN Outcome(500, Message("An error occurred while saving the submission"), tbl)
         ELSE LET textSubmission == TextSubmission(nid, Trim(text), clk)
              IN  Outcome(201, Rows(<<textSubmission>>), tbl \cup {textSubmission})
PostTextSubmissionAddedBeforeFailure(tbl, nid, clk, text, storeUp) ==
    IF ~ModelStateIsValid(text)
    THEN Outcome(400, Message(ModelState(text)), tbl)
    ELSE LET textSubmission == TextSubmission(nid, text, clk)
         IN  IF ~storeUp
             THEN Outcome(500, Message("An error occurred while saving the submission"),
                          tbl \cup {textSubmission})
             ELSE Outcome(201, Rows(<<textSubmission>>), tbl \cup {textSubmission})
PostTextSubmission(tbl, nid, clk, text, storeUp) ==
    IF ~ModelStateIsValid(text)
    THEN Outcome(400, Message(ModelState(text)), tbl)
    ELSE IF ~storeUp
         THEN Outcome(500, Message("An error occurred while saving the submission"), tbl)
         ELSE LET textSubmission == TextSubmission(nid, text, clk)
              IN  Outcome(201, Rows(<<textSubmission>>), tbl \cup {textSubmission})

\* PUT api/TextSubmission/{id}
PutTextSubmissionNewEntity(tbl, id, text, storeUp) ==
    IF ~storeUp
    THEN Outcome(500, Message("An error occurred"), tbl)
    ELSE IF FindAsync(tbl, id) = {}
         THEN Outcome(404, Message("Text submission not found"), tbl)
         ELSE IF ~ModelStateIsValid(text)
              THEN Outcome(400, Message(ModelState(text)), tbl)
              ELSE LET new == TextSubmission(id, text, now)
                   IN  Outcome(200, Rows(<<new>>), (tbl \ FindAsync(tbl, id)) \cup {new})
PutTextSubmissionNotSaved(tbl, id, text, storeUp) ==
    IF ~storeUp
    THEN Outcome(500, Message("An error occurred"), tbl)
    ELSE IF FindAsync(tbl, id) = {}
         THEN Outcome(404, Message("Text submission not found"), tbl)
         ELSE IF ~ModelStateIsValid(text)
              THEN Outcome(400, Message(ModelState(text)), tbl)
              ELSE LET old == CHOOSE r \in FindAsync(tbl, id) : TRUE
                       new == [old EXCEPT !.text = text]
                   IN  Outcome(200, Rows(<<new>>), tbl)
PutTextSubmission(tbl, id, text, storeUp) ==
    IF ~storeUp
    THEN Outcome(500, Message("An error occurred"), tbl)
    ELSE IF FindAsync(tbl, id) = {}
         THEN Outcome(404, Message("Text submission not found"), tbl)
         ELSE IF ~ModelStateIsValid(text)
              THEN Outcome(400, Message(ModelState(text)), tbl)
              ELSE LET old == CHOOSE r \in FindAsync(tbl, id) : TRUE
                       new == [old EXCEPT !.text = text]
                   IN  Outcome(200, Rows(<<new>>), (tbl \ {old}) \cup {new})

\* DELETE api/TextSubmission/{id}
DeleteTextSubmissionOldest(tbl, id, storeUp) ==
    IF ~storeUp
    THEN Outcome(500, Message("An error occurred"), tbl)
    ELSE IF FindAsync(tbl, id) = {}
         THEN Outcome(404, Message("Text submission not found"), tbl)
         ELSE Outcome(204, NoContent,
                      tbl \ { r \in tbl : \A q \in tbl : r.id <= q.id })
DeleteTextSubmission(tbl, id, storeUp) ==
    IF ~storeUp
    THEN Outcome(500, Message("An error occurred"), tbl)
    ELSE IF FindAsync(tbl, id) = {}
         THEN Outcome(404, Message("Text submission not found"), tbl)
         ELSE Outcome(204, NoContent, tbl \ FindAsync(tbl, id))

\* [ApiController]: a request whose body fails validation is answered 400
\* before the action runs
ApiControllerSuppressed(text, tbl, outcome) == outcome
ApiController(text, tbl, outcome) ==
    IF ~ModelStateIsValid(text)
    THEN Outcome(400, Message(ModelState(text)), tbl)
    ELSE outcome

(* ------------------------- the API, over HTTP ------------------------- *)
Create(tbl, nid, clk, text, storeUp) ==
    ApiController(text, tbl, PostTextSubmission(tbl, nid, clk, text, storeUp))

Read(tbl, id, storeUp) == GetTextSubmission(tbl, id, storeUp)

ReadAll(tbl, storeUp) == GetTextSubmissions(tbl, storeUp)

Update(tbl, id, text, storeUp) ==
    ApiController(text, tbl, PutTextSubmission(tbl, id, text, storeUp))

Delete(tbl, id, storeUp) == DeleteTextSubmission(tbl, id, storeUp)

\* the key generator of the store: a key is handed out once
NextKeyNotAdvanced(nid, status) == nid
NextKey(nid, status) == IF status = 201 THEN nid + 1 ELSE nid

Response(op, status, body) == [op |-> op, status |-> status, body |-> body]

\* the dashboard as constructed: the initial values of its signals
DashboardInit ==
    /\ mounted = FALSE
    /\ submissions = <<>>
    /\ isLoading = FALSE
    /\ errorMessage = ""
    /\ editingId = null
    /\ editText = Str(0, "", 0, 0)
    /\ net = <<>>

\* the form and the application shell as constructed
FormInit ==
    /\ textControl = Str(0, "", 0, 0)
    /\ isSubmitting = FALSE
    /\ submitMessage = ""
    /\ submitSuccess = FALSE
    /\ dashboardRefreshTrigger = 0

Init ==
    /\ table = {}
    /\ nextId = 1
    /\ now = 0
    /\ resp = Response("none", 0, NoContent)
    /\ DashboardInit
    /\ FormInit

\* the clock advances between requests
Tick ==
    /\ now < MaxTime
    /\ now' = now + 1
    /\ UNCHANGED <<formVars, table, nextId, resp, dashVars>>

ApiCreate(text, storeUp) ==
    LET o == Create(table, nextId, now, text, storeUp)
    IN  /\ nextId <= MaxId
        /\ Cardinality(table) < MaxRows
        /\ table' = o.table
        /\ nextId' = NextKey(nextId, o.status)
        /\ resp' = Response("Create", o.status, o.body)
        /\ UNCHANGED <<formVars, now, dashVars>>

ApiReadAll(storeUp) ==
    \E o \in ReadAll(table, storeUp) :
        /\ resp' = Response("ReadAll", o.status, o.body)
        /\ UNCHANGED <<formVars, table, nextId, now, dashVars>>

ApiRead(id, storeUp) ==
    LET o == Read(table, id, storeUp)
    IN  /\ resp' = Response("Read", o.status, o.body)
        /\ UNCHANGED <<formVars, table, nextId, now, dashVars>>

ApiUpdate(id, text, storeUp) ==
    LET o == Update(table, id, text, storeUp)
    IN  /\ table' = o.table
        /\ resp' = Response("Update", o.status, o.body)
        /\ UNCHANGED <<formVars, nextId, now, dashVars>>

ApiDelete(id, storeUp) ==
    LET o == Delete(table, id, storeUp)
    IN  /\ table' = o.table
        /\ resp' = Response("Delete", o.status, o.body)
        /\ UNCHANGED <<formVars, nextId, now, dashVars>>

NextApi ==
    \/ Tick
    \/ \E t \in ApiTexts, up \in BOOLEAN : ApiCreate(t, up)
    \/ \E up \in BOOLEAN : ApiReadAll(up)
    \/ \E i \in Ids, up \in BOOLEAN : ApiRead(i, up)
    \/ \E i \in Ids, t \in ApiTexts, up \in BOOLEAN : ApiUpdate(i, t, up)
    \/ \E i \in Ids, up \in BOOLEAN : ApiDelete(i, up)

SpecApi == Init /\ [][NextApi]_vars

(* ============================ the dashboard =========================== *)
\* dashboard.ts: TEXT_MIN_LENGTH and TEXT_MAX_LENGTH
TEXT_MIN_LENGTH == 10
TEXT_MAX_LENGTH == 50

\* requests the dashboard may have in flight at once
MaxInFlight == 2

LOAD_FAILED == "Failed to load submissions. Please try again."

\* the rows the table holds when the session starts
SeedRows ==
    { TextSubmission(1, Str(0, "a", 12, 0), 0),
      TextSubmission(2, Str(0, "b", 12, 0), 1) }

\* what the user may type into the edit box: 10 characters between two
\* blanks, 8 characters between two blanks, and 51 characters
EditTexts ==
    { Str(1, "c", 10, 1),
      Str(1, "c", 8, 1),
      Str(0, "c", 51, 0) }

\* a request of the dashboard: sent, then answered by the server, then
\* handed to the subscriber's next or error callback
\* (prior records the list the dashboard held when it issued a load)
HttpRequest(op, id, text) ==
    [op |-> op, id |-> id, text |-> text, stage |-> "sent",
     status |-> 0, body |-> NoContent, prior |-> <<>>]

RemoveAt(s, k) == [j \in 1..(Len(s) - 1) |-> IF j < k THEN s[j] ELSE s[j + 1]]

\* HttpClient: a 2xx response goes to next, any other to error
IsSuccess(status) == status >= 200 /\ status < 300

InitDash ==
    /\ table = SeedRows
    /\ nextId = 3
    /\ now = 1
    /\ resp = Response("none", 0, NoContent)
    /\ DashboardInit
    /\ FormInit

\* the server handles one of the requests in flight
ServerHandle(k, storeUp) ==
    /\ k \in 1..Len(net)
    /\ net[k].stage = "sent"
    /\ \E o \in (CASE net[k].op = "ReadAll" -> ReadAll(table, storeUp)
                   [] net[k].op = "Create" ->
                        { Create(table, nextId, now, net[k].text, storeUp) }
                   [] net[k].op = "Update" ->
                        { Update(table, net[k].id, net[k].text, storeUp) }
                   [] net[k].op = "Delete" ->
                        { Delete(table, net[k].id, storeUp) }) :
          /\ table' = o.table
          /\ nextId' = IF net[k].op = "Create"
                       THEN NextKey(nextId, o.status)
                       ELSE nextId
          /\ net' = [net EXCEPT ![k] = [@ EXCEPT !.stage = "answered",
                                                 !.status = o.status,
                                                 !.body = o.body]]
    /\ UNCHANGED <<formVars, now, resp, mounted, submissions, isLoading,
                   errorMessage, editingId, editText>>

\* setLoadingState(true), then getSubmissions().subscribe(...)
loadSubmissions ==
    /\ Len(net) < MaxInFlight
    /\ isLoading' = TRUE
    /\ errorMessage' = ""
    /\ net' = Append(net, [HttpRequest("ReadAll", 0, NullText)
                               EXCEPT !.prior = submissions])
    /\ UNCHANGED <<formVars, table, nextId, now, resp, submissions, editingId, editText>>

ngOnInit ==
    /\ ~mounted
    /\ mounted' = TRUE
    /\ loadSubmissions

refreshSubmissions ==
    /\ mounted
    /\ UNCHANGED mounted
    /\ loadSubmissions

\* loadSubmissions, next callback
LoadNextMerged(k) ==
    /\ k \in 1..Len(net)
    /\ net[k].op = "ReadAll" /\ net[k].stage = "answered"
    /\ IsSuccess(net[k].status)
    /\ submissions' = submissions \o net[k].body.rows
    /\ isLoading' = FALSE
    /\ net' = RemoveAt(net, k)
    /\ UNCHANGED <<formVars, table, nextId, now, resp, mounted, errorMessage,
                   editingId, editText>>
LoadNext(k) ==
    /\ k \in 1..Len(net)
    /\ net[k].op = "ReadAll" /\ net[k].stage = "answered"
    /\ IsSuccess(net[k].status)
    /\ submissions' = net[k].body.rows
    /\ isLoading' = FALSE
    /\ net' = RemoveAt(net, k)
    /\ UNCHANGED <<formVars, table, nextId, now, resp, mounted, errorMessage, editingId,
                   editText>>

\* loadSubmissions, error callback
LoadErrorClearsList(k) ==
    /\ k \in 1..Len(net)
    /\ net[k].op = "ReadAll" /\ net[k].stage = "answered"
    /\ ~IsSuccess(net[k].status)
    /\ errorMessage' = LOAD_FAILED
    /\ isLoading' = FALSE
    /\ submissions' = <<>>
    /\ net' = RemoveAt(net, k)
    /\ UNCHANGED <<formVars, table, nextId, now, resp, mounted, editingId,
                   editText>>
LoadError(k) ==
    /\ k \in 1..Len(net)
    /\ net[k].op = "ReadAll" /\ net[k].stage = "answered"
    /\ ~IsSuccess(net[k].status)
    /\ errorMessage' = LOAD_FAILED
    /\ isLoading' = FALSE
    /\ net' = RemoveAt(net, k)
    /\ UNCHANGED <<formVars, table, nextId, now, resp, mounted, submissions, editingId,
                   editText>>

startEditKeepsText(k) ==
    /\ k \in 1..Len(submissions)
    /\ editingId' = submissions[k].id
    /\ editText' = IF editingId = null THEN submissions[k].text ELSE editText
    /\ UNCHANGED <<formVars, table, nextId, now, resp, mounted, submissions,
                   isLoading, errorMessage, net>>
startEdit(k) ==
    /\ k \in 1..Len(submissions)
    /\ editingId' = submissions[k].id
    /\ editText' = submissions[k].text
    /\ UNCHANGED <<formVars, table, nextId, now, resp, mounted, submissions, isLoading,
                   errorMessage, net>>

\* the user types in the edit box, which is bound to editText
TypeEditText(t) ==
    /\ editingId # null
    /\ editText' = t
    /\ UNCHANGED <<formVars, table, nextId, now, resp, mounted, submissions, isLoading,
                   errorMessage, editingId, net>>

cancelEdit ==
    /\ editingId # null
    /\ editingId' = null
    /\ editText' = Str(0, "", 0, 0)
    /\ UNCHANGED <<formVars, table, nextId, now, resp, mounted, submissions, isLoading,
                   errorMessage, net>>

isValidTextLengthMaxOnly(t) == Length(t) <= TEXT_MAX_LENGTH
isValidTextLength(t) == Length(t) >= TEXT_MIN_LENGTH /\ Length(t) <= TEXT_MAX_LENGTH

\* saveEdit of the row being edited; a text of the wrong length is answered
\* with an alert and nothing else
saveEdit(id) ==
    /\ id # null
    /\ id = editingId
    /\ LET updatedText == Trim(editText)
       IN  IF ~isValidTextLength(updatedText)
           THEN UNCHANGED net
           ELSE /\ Len(net) < MaxInFlight
                /\ net' = Append(net, HttpRequest("Update", id, updatedText))
    /\ UNCHANGED <<formVars, table, nextId, now, resp, mounted, submissions, isLoading,
                   errorMessage, editingId, editText>>

\* updateSubmissionInList
updateSubmissionInListMoveToFront(list, id, updatedSubmission) ==
    IF \E j \in 1..Len(list) : list[j].id = id
    THEN <<updatedSubmission>> \o SelectSeq(list, LAMBDA sub : sub.id # id)
    ELSE list
updateSubmissionInList(list, id, updatedSubmission) ==
    [j \in 1..Len(list) |-> IF list[j].id = id THEN updatedSubmission ELSE list[j]]

\* a variant of the next callback that leaves another row's edit alone
UpdateNextIfStillEditing(k) ==
    /\ k \in 1..Len(net)
    /\ net[k].op = "Update" /\ net[k].stage = "answered"
    /\ IsSuccess(net[k].status)
    /\ submissions' = updateSubmissionInList(submissions, net[k].id, net[k].body.rows[1])
    /\ editingId' = IF editingId = net[k].id THEN null ELSE editingId
    /\ editText' = IF editingId = net[k].id THEN Str(0, "", 0, 0) ELSE editText
    /\ net' = RemoveAt(net, k)
    /\ UNCHANGED <<formVars, table, nextId, now, resp, mounted, isLoading, errorMessage>>

\* saveEdit, next callback
UpdateNext(k) ==
    /\ k \in 1..Len(net)
    /\ net[k].op = "Update" /\ net[k].stage = "answered"
    /\ IsSuccess(net[k].status)
    /\ submissions' = updateSubmissionInList(submissions, net[k].id, net[k].body.rows[1])
    /\ editingId' = null
    /\ editText' = Str(0, "", 0, 0)
    /\ net' = RemoveAt(net, k)
    /\ UNCHANGED <<formVars, table, nextId, now, resp, mounted, isLoading, errorMessage>>

\* saveEdit, error callback: an alert
UpdateErrorResets(k) ==
    /\ k \in 1..Len(net)
    /\ net[k].op = "Update" /\ net[k].stage = "answered"
    /\ ~IsSuccess(net[k].status)
    /\ editingId' = null
    /\ editText' = Str(0, "", 0, 0)
    /\ net' = RemoveAt(net, k)
    /\ UNCHANGED <<formVars, table, nextId, now, resp, mounted, submissions,
                   isLoading, errorMessage>>
UpdateError(k) ==
    /\ k \in 1..Len(net)
    /\ net[k].op = "Update" /\ net[k].stage = "answered"
    /\ ~IsSuccess(net[k].status)
    /\ net' = RemoveAt(net, k)
    /\ UNCHANGED <<formVars, table, nextId, now, resp, mounted, submissions, isLoading,
                   errorMessage, editingId, editText>>

\* deleteSubmission(id, text) of a listed row; confirmed is the user's answer
\* to the confirm() dialog
deleteSubmissionUnconfirmed(k, confirmed) ==
    /\ k \in 1..Len(submissions)
    /\ Len(net) < MaxInFlight
    /\ net' = Append(net, HttpRequest("Delete", submissions[k].id, NullText))
    /\ UNCHANGED <<formVars, table, nextId, now, resp, mounted, submissions,
                   isLoading, errorMessage, editingId, editText>>
deleteSubmission(k, confirmed) ==
    /\ k \in 1..Len(submissions)
    /\ IF ~confirmed
       THEN UNCHANGED net
       ELSE /\ Len(net) < MaxInFlight
            /\ net' = Append(net, HttpRequest("Delete", submissions[k].id, NullText))
    /\ UNCHANGED <<formVars, table, nextId, now, resp, mounted, submissions, isLoading,
                   errorMessage, editingId, editText>>

\* removeSubmissionFromList
removeSubmissionFromList(list, id) == SelectSeq(list, LAMBDA sub : sub.id # id)

\* deleteSubmission, next callback
DeleteNextReloads(k) ==
    /\ k \in 1..Len(net)
    /\ net[k].op = "Delete" /\ net[k].stage = "answered"
    /\ IsSuccess(net[k].status)
    /\ submissions' = removeSubmissionFromList(submissions, net[k].id)
    /\ isLoading' = TRUE
    /\ errorMessage' = ""
    /\ net' = Append(RemoveAt(net, k),
                     [HttpRequest("ReadAll", 0, NullText) EXCEPT !.prior = submissions'])
    /\ UNCHANGED <<formVars, table, nextId, now, resp, mounted, editingId,
                   editText>>
DeleteNext(k) ==
    /\ k \in 1..Len(net)
    /\ net[k].op = "Delete" /\ net[k].stage = "answered"
    /\ IsSuccess(net[k].status)
    /\ submissions' = removeSubmissionFromList(submissions, net[k].id)
    /\ net' = RemoveAt(net, k)
    /\ UNCHANGED <<formVars, table, nextId, now, resp, mounted, isLoading, errorMessage,
                   editingId, editText>>

\* deleteSubmission, error callback: an alert
DeleteErrorRemoves(k) ==
    /\ k \in 1..Len(net)
    /\ net[k].op = "Delete" /\ net[k].stage = "answered"
    /\ ~IsSuccess(net[k].status)
    /\ submissions' = removeSubmissionFromList(submissions, net[k].id)
    /\ net' = RemoveAt(net, k)
    /\ UNCHANGED <<formVars, table, nextId, now, resp, mounted, isLoading,
                   errorMessage, editingId, editText>>
DeleteError(k) ==
    /\ k \in 1..Len(net)
    /\ net[k].op = "Delete" /\ net[k].stage = "answered"
    /\ ~IsSuccess(net[k].status)
    /\ net' = RemoveAt(net, k)
    /\ UNCHANGED <<formVars, table, nextId, now, resp, mounted, submissions, isLoading,
                   errorMessage, editingId, editText>>

NextDash ==
    \/ ngOnInit
    \/ refreshSubmissions
    \/ \E k \in 1..MaxInFlight, up \in BOOLEAN : ServerHandle(k, up)
    \/ \E k \in 1..MaxInFlight : LoadNext(k)
    \/ \E k \in 1..MaxInFlight : LoadError(k)
    \/ \E k \in 1..Cardinality(SeedRows) : startEdit(k)
    \/ \E t \in EditTexts : TypeEditText(t)
    \/ cancelEdit
    \/ \E i \in Ids : saveEdit(i)
    \/ \E k \in 1..MaxInFlight : UpdateNext(k)
    \/ \E k \in 1..MaxInFlight : UpdateError(k)
    \/ \E k \in 1..Cardinality(SeedRows), c \in BOOLEAN : deleteSubmission(k, c)
    \/ \E k \in 1..MaxInFlight : DeleteNext(k)
    \/ \E k \in 1..MaxInFlight : DeleteError(k)

SpecDash == InitDash /\ [][NextDash]_vars

(* ============================== the form ============================== *)
\* text-submission-form.ts: TEXT_MIN_LENGTH and TEXT_MAX_LENGTH
FORM_TEXT_MIN_LENGTH == 10
FORM_TEXT_MAX_LENGTH == 50

MESSAGES_SUCCESS == "Text submitted successfully!"
MESSAGES_ERROR == "Error submitting text. Please try again."

\* what the user may type into the form: nothing, 9 characters, 10 characters,
\* 10 blanks, 51 characters
FormTexts ==
    { Str(0, "", 0, 0),
      Str(0, "e", 9, 0),
      Str(0, "e", 10, 0),
      Str(10, "", 0, 0),
      Str(0, "e", 51, 0) }

\* Validators.required, Validators.minLength and Validators.maxLength on the
\* value of the control as typed (reset() leaves it null)
textFormValidRequiredOnly(v) == ~v.null /\ Length(v) # 0
textFormValid(v) ==
    /\ ~v.null
    /\ Length(v) # 0
    /\ Length(v) >= FORM_TEXT_MIN_LENGTH
    /\ Length(v) <= FORM_TEXT_MAX_LENGTH

\* createSubmissionRequest: value?.trim() || ''
createSubmissionRequest(v) == IF v.null THEN Str(0, "", 0, 0) ELSE Trim(v)

\* Create requests sent and not yet handled by the server
CreatesSent == { k \in 1..Len(net) : net[k].op = "Create" /\ net[k].stage = "sent" }

\* the user types in the text box of the form
TypeText(t) ==
    /\ textControl' = t
    /\ UNCHANGED <<table, nextId, now, resp, dashVars, isSubmitting,
                   submitMessage, submitSuccess, dashboardRefreshTrigger>>

\* a variant of onSubmit that unsubscribes from the pending request
onSubmitSwitching ==
    /\ IF ~textFormValid(textControl)
       THEN UNCHANGED <<isSubmitting, submitMessage, net>>
       ELSE /\ Len(SelectSeq(net, LAMBDA q : q.op # "Create")) < MaxInFlight
            /\ Cardinality(table) < MaxRows
            /\ nextId <= MaxId
            /\ isSubmitting' = TRUE
            /\ submitMessage' = ""
            /\ net' = Append(SelectSeq(net, LAMBDA q : q.op # "Create"),
                             HttpRequest("Create", 0,
                                         createSubmissionRequest(textControl)))
    /\ UNCHANGED <<table, nextId, now, resp, mounted, submissions, isLoading,
                   errorMessage, editingId, editText, textControl,
                   submitSuccess, dashboardRefreshTrigger>>

\* onSubmit: nothing while the form is invalid; else setSubmittingState(true)
\* and submitText(request).subscribe(...)
onSubmit ==
    /\ IF ~textFormValid(textControl)
       THEN UNCHANGED <<isSubmitting, submitMessage, net>>
       ELSE /\ Len(net) < MaxInFlight
            /\ Cardinality(table) + Cardinality(CreatesSent) < MaxRows
            /\ nextId + Cardinality(CreatesSent) <= MaxId
            /\ isSubmitting' = TRUE
            /\ submitMessage' = ""
            /\ net' = Append(net, HttpRequest("Create", 0,
                                              createSubmissionRequest(textControl)))
    /\ UNCHANGED <<table, nextId, now, resp, mounted, submissions, isLoading,
                   errorMessage, editingId, editText, textControl,
                   submitSuccess, dashboardRefreshTrigger>>

\* onSubmit, next callback: handleSubmissionSuccess
handleSubmissionSuccessNoReset(k) ==
    /\ k \in 1..Len(net)
    /\ net[k].op = "Create" /\ net[k].stage = "answered"
    /\ IsSuccess(net[k].status)
    /\ isSubmitting' = FALSE
    /\ submitSuccess' = TRUE
    /\ submitMessage' = MESSAGES_SUCCESS
    /\ net' = RemoveAt(net, k)
    /\ UNCHANGED <<table, nextId, now, resp, mounted, submissions, isLoading,
                   errorMessage, editingId, editText, textControl,
                   dashboardRefreshTrigger>>
handleSubmissionSuccess(k) ==
    /\ k \in 1..Len(net)
    /\ net[k].op = "Create" /\ net[k].stage = "answered"
    /\ IsSuccess(net[k].status)
    /\ isSubmitting' = FALSE
    /\ submitSuccess' = TRUE
    /\ submitMessage' = MESSAGES_SUCCESS
    /\ textControl' = NullText
    /\ net' = RemoveAt(net, k)
    /\ UNCHANGED <<table, nextId, now, resp, mounted, submissions, isLoading,
                   errorMessage, editingId, editText, dashboardRefreshTrigger>>

\* onSubmit, error callback: handleSubmissionError
handleSubmissionErrorReset(k) ==
    /\ k \in 1..Len(net)
    /\ net[k].op = "Create" /\ net[k].stage = "answered"
    /\ ~IsSuccess(net[k].status)
    /\ isSubmitting' = FALSE
    /\ submitSuccess' = FALSE
    /\ submitMessage' = MESSAGES_ERROR
    /\ textControl' = NullText
    /\ net' = RemoveAt(net, k)
    /\ UNCHANGED <<table, nextId, now, resp, mounted, submissions, isLoading,
                   errorMessage, editingId, editText, dashboardRefreshTrigger>>
handleSubmissionError(k) ==
    /\ k \in 1..Len(net)
    /\ net[k].op = "Create" /\ net[k].stage = "answered"
    /\ ~IsSuccess(net[k].status)
    /\ isSubmitting' = FALSE
    /\ submitSuccess' = FALSE
    /\ submitMessage' = MESSAGES_ERROR
    /\ net' = RemoveAt(net, k)
    /\ UNCHANGED <<table, nextId, now, resp, mounted, submissions, isLoading,
                   errorMessage, editingId, editText, textControl,
                   dashboardRefreshTrigger>>

\* App.onSubmissionAdded. The form declares no submissionAdded output and
\* neither of its callbacks calls the shell, so no step of the application
\* takes this action; the dashboard's effect on refreshTrigger (a reload
\* 100 ms after the trigger changes to a positive value) therefore only sees
\* the initial 0.
onSubmissionAdded ==
    /\ dashboardRefreshTrigger' = dashboardRefreshTrigger + 1
    /\ UNCHANGED <<table, nextId, now, resp, dashVars, textControl,
                   isSubmitting, submitMessage, submitSuccess>>

\* the application: the form and the dashboard in one page, over one server
InitApp ==
    /\ table = {}
    /\ nextId = 1
    /\ now = 0
    /\ resp = Response("none", 0, NoContent)
    /\ DashboardInit
    /\ FormInit

\* the form alone over the server
NextForm ==
    \/ \E t \in FormTexts : TypeText(t)
    \/ onSubmit
    \/ \E k \in 1..MaxInFlight, up \in BOOLEAN : ServerHandle(k, up)
    \/ \E k \in 1..MaxInFlight : handleSubmissionSuccess(k)
    \/ \E k \in 1..MaxInFlight : handleSubmissionError(k)

SpecForm == InitApp /\ [][NextForm]_vars

\* what the browser and the server do unprompted
NextSystem ==
    \/ ngOnInit
    \/ \E k \in 1..MaxInFlight, up \in BOOLEAN : ServerHandle(k, up)
    \/ \E k \in 1..MaxInFlight : LoadNext(k)
    \/ \E k \in 1..MaxInFlight : LoadError(k)
    \/ \E k \in 1..MaxInFlight : handleSubmissionSuccess(k)
    \/ \E k \in 1..MaxInFlight : handleSubmissionError(k)

NextApp ==
    \/ refreshSubmissions
    \/ \E t \in FormTexts : TypeText(t)
    \/ onSubmit
    \/ NextSystem

\* the dashboard is mounted, every request is answered and every answer is
\* delivered; the user is under no obligation
SpecApp == InitApp /\ [][NextApp]_vars /\ WF_vars(NextSystem)

\* two clients over one server: the dashboard, and a second client that
\* calls the API directly
WriterTexts == {t \in ApiTexts : ModelStateIsValid(t)}

NextWriters ==
    \/ ngOnInit
    \/ \E k \in 1..MaxInFlight : ServerHandle(k, TRUE)
    \/ \E k \in 1..MaxInFlight : LoadNext(k)
    \/ \E k \in 1..Cardinality(SeedRows) : startEdit(k)
    \/ \E t \in EditTexts : TypeEditText(t)
    \/ \E i \in Ids : saveEdit(i)
    \/ \E k \in 1..MaxInFlight : UpdateNext(k)
    \/ \E i \in Ids, t \in WriterTexts : ApiUpdate(i, t, TRUE)

SpecWriters == InitDash /\ [][NextWriters]_vars

(* ======================= properties of the API ======================== *)
\* Requests the store answers are written with storeUp = TRUE; C8 is about
\* the store failing.

\* a text that is null, empty or whitespace-only
Blank(t) == t.null \/ t.len = 0
\* a text of more than 1000 characters
TooLong(t) == ~t.null /\ t.lead + t.len + t.trail > 1000
\* a text that is non-blank and at most 1000 characters
Acceptable(t) == ~Blank(t) /\ ~TooLong(t)

Exists(i) == \E r \in table : r.id = i
RowOf(i) == CHOOSE r \in table : r.id = i

\* C1: Create(text), and Update(id, text) on an existing id, with a text that
\* is null, empty, whitespace-only or longer than 1000 characters are
\* answered 400 and leave the table as it was.
C1_InvalidTextRejected ==
    [][\A t \in ApiTexts, up \in BOOLEAN :
        (Blank(t) \/ TooLong(t)) =>
            /\ ApiCreate(t, up) => (resp'.status = 400 /\ table' = table)
            /\ \A i \in Ids :
                (Exists(i) /\ ApiUpdate(i, t, up)) =>
                    (resp'.status = 400 /\ table' = table)]_vars

C1_Witness ==
    /\ resp.op = "Create"
    /\ resp.status = 400
    /\ resp.body.message = "Text cannot exceed 1000 characters"
    /\ table # {}

\* C2: a Create of an acceptable text that the store answers succeeds with
\* 201 and adds exactly one row: its id is positive and fresh, its text is the
\* request text, every other row is as before, and the response is that row.
C2_CreateAddsOneRow ==
    [][\A t \in ApiTexts :
        (Acceptable(t) /\ ApiCreate(t, TRUE)) =>
            /\ resp'.status = 201
            /\ \E r \in table' :
                /\ r \notin table
                /\ table' = table \cup {r}
                /\ r.id > 0
                /\ \A q \in table : q.id # r.id
                /\ r.text = t
                /\ resp'.body.rows = <<r>>]_vars

C2_Witness ==
    /\ resp.op = "Create"
    /\ resp.status = 201
    /\ resp.body.rows[1] \in table
    /\ Cardinality(table) = 2

\* C3 as stated: ReadAll returns every row exactly once, ordered by
\* createdAt strictly descending.
C3_StrictlyDescending ==
    [][ApiReadAll(TRUE) =>
        /\ resp'.status = 200
        /\ Len(resp'.body.rows) = Cardinality(table)
        /\ { resp'.body.rows[k] : k \in 1..Len(resp'.body.rows) } = table
        /\ \A k \in 1..(Len(resp'.body.rows) - 1) :
              resp'.body.rows[k].createdAt > resp'.body.rows[k + 1].createdAt]_vars

\* C3 amended: ReadAll returns every row exactly once, ordered by createdAt
\* descending; rows created at the same clock reading are adjacent, in an
\* order the store chooses.
C3_Descending ==
    [][ApiReadAll(TRUE) =>
        /\ resp'.status = 200
        /\ Len(resp'.body.rows) = Cardinality(table)
        /\ { resp'.body.rows[k] : k \in 1..Len(resp'.body.rows) } = table
        /\ \A k \in 1..(Len(resp'.body.rows) - 1) :
              resp'.body.rows[k].createdAt >= resp'.body.rows[k + 1].createdAt]_vars

C3_Witness ==
    /\ resp.op = "ReadAll"
    /\ resp.status = 200
    /\ Len(resp.body.rows) = 2
    /\ resp.body.rows[1].createdAt = resp.body.rows[2].createdAt
    /\ resp.body.rows[1].id < resp.body.rows[2].id

\* C4: Update(id, text) of an existing id with an acceptable text changes
\* only the text of that row: same id, same createdAt, every other row
\* unchanged, no row added or removed, and the response is the updated row.
C4_UpdateChangesOnlyText ==
    [][\A i \in Ids, t \in ApiTexts :
        (Exists(i) /\ Acceptable(t) /\ ApiUpdate(i, t, TRUE)) =>
            LET old == RowOf(i)
                new == [id |-> old.id, text |-> t, createdAt |-> old.createdAt]
            IN  /\ resp'.status = 200
                /\ resp'.body.rows = <<new>>
                /\ table' = (table \ {old}) \cup {new}
                /\ Cardinality(table') = Cardinality(table)]_vars

C4_Witness ==
    /\ resp.op = "Update"
    /\ resp.status = 200
    /\ resp.body.rows[1] \in table
    /\ resp.body.rows[1].createdAt < now
    /\ Cardinality(table) = 2

\* C5 as stated: for an id no row has, Read(id), Update(id, text) and
\* Delete(id) are answered 404 and leave the table unchanged.
C5_MissingIdNotFound ==
    [][\A i \in Ids :
        ~Exists(i) =>
            /\ ApiRead(i, TRUE) => (resp'.status = 404 /\ table' = table)
            /\ ApiDelete(i, TRUE) => (resp'.status = 404 /\ table' = table)
            /\ \A t \in ApiTexts :
                ApiUpdate(i, t, TRUE) => (resp'.status = 404 /\ table' = table)]_vars

\* C5 amended: for an id no row has, Read(id), Delete(id) and Update(id, text)
\* with an acceptable text are answered 404; Update(id, text) with a text
\* that fails validation is answered 400; in every case the table is
\* unchanged, so Update on a missing id creates no row.
C5_MissingIdNotFoundForValidText ==
    [][\A i \in Ids :
        ~Exists(i) =>
            /\ ApiRead(i, TRUE) => (resp'.status = 404 /\ table' = table)
            /\ ApiDelete(i, TRUE) => (resp'.status = 404 /\ table' = table)
            /\ \A t \in ApiTexts :
                ApiUpdate(i, t, TRUE) =>
                    /\ resp'.status = (IF Acceptable(t) THEN 404 ELSE 400)
                    /\ table' = table]_vars

C5_Witness ==
    /\ resp.op = "Update"
    /\ resp.status = 404
    /\ table # {}
    /\ nextId <= MaxId

\* an id the store handed out whose row is gone
Deleted(i) == i < nextId /\ ~Exists(i)

\* C6: Delete(id) of an existing id removes exactly the row with that id,
\* leaves every other row unchanged and is answered 204 with no content;
\* from then on the id stays without a row and every Read(id) is answered 404.
C6_DeleteRemovesRow ==
    [][\A i \in Ids :
        /\ (Exists(i) /\ ApiDelete(i, TRUE)) =>
              /\ resp'.status = 204
              /\ resp'.body = NoContent
              /\ table' = table \ {RowOf(i)}
              /\ Cardinality(table') = Cardinality(table) - 1
              /\ Deleted(i)'
        /\ Deleted(i) =>
              /\ Deleted(i)'
              /\ ApiRead(i, TRUE) => resp'.status = 404]_vars

C6_Witness ==
    /\ resp.op = "Read"
    /\ resp.status = 404
    /\ nextId = MaxId + 1
    /\ \E i \in Ids : Deleted(i) /\ Exists(i + 1)

\* C7: for every text the server accepts, reading the created row back
\* yields the submitted text, leading and trailing whitespace included.
C7_RoundTrip ==
    [][\A t \in ApiTexts :
        (ApiCreate(t, TRUE) /\ resp'.status = 201) =>
            LET o == Read(table', resp'.body.rows[1].id, TRUE)
            IN  /\ o.status = 200
                /\ o.body.rows[1].text = t
                /\ Length(o.body.rows[1].text) = Length(t)]_vars

C7_Witness ==
    /\ resp.op = "Create"
    /\ resp.status = 201
    /\ resp.body.rows[1].text.lead > 0
    /\ resp.body.rows[1].text.trail > 0
    /\ Read(table, resp.body.rows[1].id, TRUE).body = resp.body

\* the fixed messages of the 500 responses
GenericMessages ==
    { "An error occurred while retrieving submissions",
      "An error occurred while retrieving the submission",
      "An error occurred while saving the submission",
      "An error occurred" }

InternalError(r) ==
    /\ r.status = 500
    /\ r.body.message \in GenericMessages
    /\ r.body.rows = <<>>

\* C8: a handler whose store call fails answers 500 with a fixed message and
\* leaves the table as it was; a mutating request either commits (the next
\* Read of the id shows the row as the response gave it, or 404 after a
\* Delete) or leaves the table exactly as it was.
C8_NoPartialSuccess ==
    [][/\ (resp'.op = "ReadAll" /\ ApiReadAll(FALSE)) =>
              (InternalError(resp') /\ table' = table)
       /\ resp'.op = "Read" =>
            \A i \in Ids :
                ApiRead(i, FALSE) => (InternalError(resp') /\ table' = table)
       /\ resp'.op = "Delete" =>
            \A i \in Ids, up \in BOOLEAN :
                ApiDelete(i, up) =>
                    /\ ~up => (InternalError(resp') /\ table' = table)
                    /\ IF resp'.status = 204
                       THEN Read(table', i, TRUE).status = 404
                       ELSE table' = table
       /\ resp'.op = "Create" =>
            \A t \in ApiTexts, up \in BOOLEAN :
                ApiCreate(t, up) =>
                    /\ (~up /\ Acceptable(t)) =>
                          (InternalError(resp') /\ table' = table)
                    /\ IF resp'.status = 201
                       THEN Read(table', resp'.body.rows[1].id, TRUE).body = resp'.body
                       ELSE table' = table
       /\ resp'.op = "Update" =>
            \* each implication "ApiUpdate(..) => P" is written P \/ ~ApiUpdate(..)
            \A i \in Ids :
                /\ \/ InternalError(resp') /\ table' = table
                   \/ \A t \in ApiTexts :
                         ~(Acceptable(t) /\ ApiUpdate(i, t, FALSE))
                /\ \/ IF resp'.status = 200
                      THEN Read(table', i, TRUE).body = resp'.body
                      ELSE table' = table
                   \/ \A t \in ApiTexts, up \in BOOLEAN : ~ApiUpdate(i, t, up)]_vars

C8_Witness ==
    /\ resp.op = "Create"
    /\ resp.status = 500
    /\ table # {}

\* C9: the rows of the table have pairwise distinct positive ids; a row that
\* stays in the table keeps its id and createdAt through every request, and a
\* row that enters it carries the key and the clock reading the server
\* assigned.
C9_IdAndCreatedAtImmutable ==
    [][/\ \A r \in table' : r.id > 0
       /\ \A r, q \in table' : r.id = q.id => r = q
       /\ \A q \in table' :
            IF \E r \in table : r.id = q.id
            THEN \A r \in table : r.id = q.id => q.createdAt = r.createdAt
            ELSE q.id = nextId /\ q.createdAt = now]_vars

C9_Witness ==
    /\ resp.op = "Update"
    /\ resp.status = 200
    /\ Cardinality(table) = 2
    /\ \E r \in table : r.createdAt < now /\ r.id > 1
    /\ \E i \in Ids : Deleted(i)

(* ======================= properties of the form ======================= *)
\* a form value that is empty, shorter than 10 or longer than 50 characters
FormInvalid(v) == v.null \/ Length(v) = 0 \/ Length(v) < 10 \/ Length(v) > 50

\* the request at position k has been answered and this step hands the
\* answer to its subscriber
Delivered(k, op) ==
    /\ k \in 1..Len(net)
    /\ net[k].op = op
    /\ net[k].stage = "answered"
    /\ net' = RemoveAt(net, k)

\* this step issues a request of the kind op
Issued(op) ==
    /\ Len(net') = Len(net) + 1
    /\ net'[Len(net')].op = op
    /\ net'[Len(net')].stage = "sent"

C12_SubmitThenSuccess ==
    [][/\ (~FormInvalid(textControl) /\ onSubmit) =>
              /\ isSubmitting'
              /\ submitMessage' = ""
              /\ Issued("Create")
              /\ net'[Len(net')].text = Trim(textControl)
       /\ \A k \in 1..MaxInFlight :
            (Delivered(k, "Create") /\ IsSuccess(net[k].status)) =>
                /\ textControl'.null
                /\ submitMessage' = "Text submitted successfully!"
                /\ submitSuccess'
                /\ ~isSubmitting']_vars

\* a success delivered after an earlier failure, the created row in the table
C12_Witness ==
    /\ textControl.null
    /\ submitMessage = MESSAGES_SUCCESS
    /\ submitSuccess
    /\ ~isSubmitting
    /\ Cardinality(table) = 2

\* C13: the form emits submissionAdded exactly once for each Create that
\* succeeds and never otherwise. The shell counts the emissions in
\* dashboardRefreshTrigger (onSubmissionAdded), so the trigger goes up by one
\* in the step that delivers a successful Create and in no other step.
C13_EmitsOncePerSuccess ==
    [][dashboardRefreshTrigger' =
          dashboardRefreshTrigger +
              (IF \E k \in 1..MaxInFlight :
                      Delivered(k, "Create") /\ IsSuccess(net[k].status)
               THEN 1 ELSE 0)]_vars

\* C14: when the Create the form issued fails, the text field keeps the
\* user's value, submitMessage is the fixed error message, submitSuccess is
\* false and isSubmitting is false.
C14_SubmitFailure ==
    [][\A k \in 1..MaxInFlight :
        (Delivered(k, "Create") /\ ~IsSuccess(net[k].status)) =>
            /\ textControl' = textControl
            /\ submitMessage' = "Error submitting text. Please try again."
            /\ submitSuccess' = FALSE
            /\ isSubmitting' = FALSE]_vars

\* a failure delivered after an earlier success, the text still in the field
C14_Witness ==
    /\ submitMessage = MESSAGES_ERROR
    /\ ~submitSuccess
    /\ ~isSubmitting
    /\ ~FormInvalid(textControl)
    /\ table # {}
    /\ net = <<>>

\* a load is in flight: issued and not yet handed to the dashboard
LoadInFlight == \E k \in 1..Len(net) : net[k].op = "ReadAll"

\* C15: after a Create of the form has succeeded the dashboard eventually
\* issues a ReadAll: from a state that shows the success with no load in
\* flight, a load is eventually in flight.
C15_ReloadAfterCreate ==
    (submitSuccess /\ submitMessage = MESSAGES_SUCCESS /\ ~LoadInFlight)
        ~> LoadInFlight

(* ===================== properties of the dashboard ==================== *)
\* the list holds every row of the table exactly once, as the table has it
\* now, newest first
CacheMatchesTable ==
    /\ Len(submissions) = Cardinality(table)
    /\ { submissions[k] : k \in 1..Len(submissions) } = table
    /\ \A k \in 1..(Len(submissions) - 1) :
          submissions[k].createdAt >= submissions[k + 1].createdAt

\* C10: in a session with no other writer, whenever the mounted dashboard
\* has no request in flight (and shows no load failure), submissions holds
\* exactly the rows of the server table, each with the server's current
\* text, newest first.
C10_CacheConsistent ==
    (mounted /\ net = <<>> /\ errorMessage = "") => CacheMatchesTable

\* C16: loadSubmissions, on mount or on a manual refresh, sets isLoading and
\* clears errorMessage as it issues the request; when a load is answered with
\* a success, submissions becomes exactly the sequence the server returned
\* and isLoading becomes false.
C16_LoadReplaces ==
    [][/\ (ngOnInit \/ refreshSubmissions) =>
              /\ isLoading' = TRUE
              /\ errorMessage' = ""
              /\ Issued("ReadAll")
       /\ \A k \in 1..MaxInFlight :
            (Delivered(k, "ReadAll") /\ IsSuccess(net[k].status)) =>
                /\ submissions' = net[k].body.rows
                /\ isLoading' = FALSE]_vars

\* a load has filled the list while a second load, issued when the list was
\* still empty, is on its way
C16_Witness ==
    /\ mounted
    /\ ~isLoading
    /\ Len(submissions) = 2
    /\ \E k \in 1..Len(net) : net[k].op = "ReadAll" /\ net[k].prior = <<>>

\* C17 as stated: when a load fails, errorMessage is the load-failure
\* message, isLoading is false, submissions is the list held before the load
\* was issued, and editingId and editText are unchanged.
C17_FailedLoadRestoresList ==
    [][\A k \in 1..MaxInFlight :
        (Delivered(k, "ReadAll") /\ ~IsSuccess(net[k].status)) =>
            /\ errorMessage' = "Failed to load submissions. Please try again."
            /\ isLoading' = FALSE
            /\ submissions' = net[k].prior
            /\ editingId' = editingId
            /\ editText' = editText]_vars

\* C17 amended: when a load fails, errorMessage is the load-failure message,
\* isLoading is false, and the failure changes neither submissions nor
\* editingId nor editText: the list is the one held just before the failure
\* was delivered, which answers delivered since the load was issued may have
\* changed.
C17_FailedLoadKeepsList ==
    [][\A k \in 1..MaxInFlight :
        (Delivered(k, "ReadAll") /\ ~IsSuccess(net[k].status)) =>
            /\ errorMessage' = "Failed to load submissions. Please try again."
            /\ isLoading' = FALSE
            /\ submissions' = submissions
            /\ editingId' = editingId
            /\ editText' = editText]_vars

\* a failed load delivered while a row of a loaded list is being edited
C17_Witness ==
    /\ errorMessage = LOAD_FAILED
    /\ ~isLoading
    /\ Len(submissions) = 2
    /\ editingId # null
    /\ editText \in EditTexts
    /\ net = <<>>

\* C18: startEdit(row), from Idle or while another row is edited, leads to
\* Editing(row.id) with editText = row.text; cancelEdit leads to Idle with
\* editText = ''; neither changes submissions or issues a request. One
\* editingId holds the row edited, so at most one row is edited at a time.
C18_EditMode ==
    [][/\ \A k \in 1..Cardinality(SeedRows) :
            startEdit(k) =>
                /\ editingId' = submissions[k].id
                /\ editingId' # null
                /\ editText' = submissions[k].text
                /\ submissions' = submissions
                /\ net' = net
       /\ cancelEdit =>
            /\ editingId' = null
            /\ editText' = Str(0, "", 0, 0)
            /\ submissions' = submissions
            /\ net' = net]_vars

\* the save of one row is still on its way and another row has been entered:
\* the edit box holds the text of the row now edited
C18_Witness ==
    /\ editingId # null
    /\ \E k \in 1..Len(net) :
          /\ net[k].op = "Update"
          /\ net[k].id # editingId
    /\ \E j \in 1..Len(submissions) :
          /\ submissions[j].id = editingId
          /\ submissions[j].text = editText

\* the length of a text without its leading and trailing whitespace
TrimmedLength(t) == t.len

\* C19: for an editText whose trimmed length is below 10 or above 50,
\* saveEdit(id) issues no request, leaves submissions unchanged and leaves
\* the dashboard editing id with editText unchanged.
C19_InvalidSaveNoOp ==
    [][\A i \in Ids :
        (saveEdit(i) /\ (TrimmedLength(editText) < 10 \/ TrimmedLength(editText) > 50)) =>
            /\ net' = net
            /\ submissions' = submissions
            /\ editingId' = i
            /\ editText' = editText]_vars

\* a row is edited and the edit box holds 8 characters between two blanks
C19_Witness ==
    /\ editingId # null
    /\ editText = Str(1, "c", 8, 1)
    /\ \E j \in 1..Len(submissions) : submissions[j].id = editingId

\* C20: when the Update issued by saveEdit(id) succeeds, the row with that id
\* in submissions is replaced in place by the row the server returned: same
\* length, same order, every other row unchanged; the dashboard leaves edit
\* mode.
C20_UpdatePatchesInPlace ==
    [][\A k \in 1..MaxInFlight :
        (Delivered(k, "Update") /\ IsSuccess(net[k].status)) =>
            /\ Len(submissions') = Len(submissions)
            /\ \A j \in 1..Len(submissions) :
                  submissions'[j] = IF submissions[j].id = net[k].id
                                    THEN net[k].body.rows[1]
                                    ELSE submissions[j]
            /\ editingId' = null
            /\ editText' = Str(0, "", 0, 0)]_vars

\* the older row, second in the list, carries the saved text; the newer row
\* is still first and as loaded
C20_Witness ==
    /\ Len(submissions) = 2
    /\ submissions[1] \in SeedRows
    /\ submissions[2].id = 1
    /\ submissions[2].text = Str(0, "c", 10, 0)
    /\ editingId = null
    /\ editText = Str(0, "", 0, 0)
    /\ ~LoadInFlight

\* C21: when the Update issued by saveEdit(id) fails, the failure changes
\* neither the edit state nor the list: a dashboard in Editing(id) stays
\* there with editText as the user left it, and submissions is unchanged.
C21_UpdateFailureKeepsEdit ==
    [][\A k \in 1..MaxInFlight :
        (Delivered(k, "Update") /\ ~IsSuccess(net[k].status)) =>
            /\ editingId' = editingId
            /\ editText' = editText
            /\ submissions' = submissions]_vars

\* the refusal of the save has arrived and its error callback is due: the
\* row is still edited, the typed text in the edit box
C21_Witness ==
    /\ editingId # null
    /\ editText = Str(1, "c", 10, 1)
    /\ \E j \in 1..Len(submissions) : submissions[j].id = editingId
    /\ \E k \in 1..Len(net) :
          /\ net[k].op = "Update"
          /\ net[k].stage = "answered"
          /\ net[k].status = 500
          /\ net[k].id = editingId

\* C22: when the user declines the confirmation of deleteSubmission(id, text)
\* no request is issued and submissions, editingId, editText, isLoading and
\* errorMessage are unchanged.
C22_DeclinedDeleteNoOp ==
    [][\A k \in 1..Cardinality(SeedRows) :
        deleteSubmission(k, FALSE) =>
            /\ net' = net
            /\ UNCHANGED <<submissions, editingId, editText, isLoading,
                           errorMessage>>]_vars

\* a list on display with a row edited, a load on its way and the failure of
\* an earlier load shown
C22_Witness ==
    /\ Len(submissions) = 2
    /\ editingId # null
    /\ isLoading = FALSE
    /\ errorMessage = LOAD_FAILED
    /\ LoadInFlight

\* C23: when a confirmed Delete(id) succeeds, exactly the rows with that id
\* leave submissions, the other rows keep their relative order, and no
\* request is issued.
C23_DeleteRemovesFromList ==
    [][\A k \in 1..MaxInFlight :
        DeleteNext(k) =>
            /\ submissions' = SelectSeq(submissions, LAMBDA sub : sub.id # net[k].id)
            /\ Len(net') = Len(net) - 1
            /\ \A j \in 1..Len(net') : \E i \in 1..Len(net) : net'[j] = net[i]]_vars

\* the newer row has left the list and the table, the older row is shown,
\* and no load was needed: the only load issued is still unanswered
C23_Witness ==
    /\ Len(submissions) = 1
    /\ submissions[1].id = 1
    /\ ~Exists(2)
    /\ Len(net) = 1
    /\ net[1].op = "ReadAll" /\ net[1].stage = "sent"
    /\ net[1].prior = <<>>

\* C24: when a confirmed Delete(id) fails, submissions is unchanged: a row
\* with that id is still in the list at the position it had.
C24_DeleteFailureKeepsList ==
    [][\A k \in 1..MaxInFlight :
        (Delivered(k, "Delete") /\ ~IsSuccess(net[k].status)) =>
            /\ submissions' = submissions
            /\ \A j \in 1..Len(submissions) :
                  submissions[j].id = net[k].id => submissions'[j] = submissions[j]]_vars

\* the refusal of the Delete of the first row has arrived and its error
\* callback is due: the row is in the table and first in the list
C24_Witness ==
    /\ Len(submissions) = 2
    /\ submissions[1] \in table
    /\ \E k \in 1..Len(net) :
          /\ net[k].op = "Delete"
          /\ net[k].stage = "answered"
          /\ net[k].status = 500
          /\ net[k].id = submissions[1].id

\* C25: there is no version check on Update. When the second client's
\* Update(r, a) has been processed and the server then processes the
\* dashboard's Update(r, b) of the same existing row, that Update is answered
\* 200 with no conflict and the stored text is b: a is overwritten.
C25_LastUpdateWins ==
    [][\A k \in 1..MaxInFlight :
        ( /\ k \in 1..Len(net)
          /\ net[k].op = "Update"
          /\ net[k].stage = "sent"
          /\ resp.op = "Update"
          /\ resp.status = 200
          /\ resp.body.rows[1].id = net[k].id
          /\ Exists(net[k].id)
          /\ ServerHandle(k, TRUE) ) =>
            /\ net'[k].status = 200
            /\ \A r \in table' :
                  r.id = net[k].id =>
                      /\ r.text = net[k].text
                      /\ r.text # resp.body.rows[1].text
            /\ \E r \in table' : r.id = net[k].id]_vars

\* both clients got 200 for the same row, which the dashboard had loaded with
\* its first text; the table holds the dashboard's text, not the other one
C25_Witness ==
    /\ resp.op = "Update"
    /\ resp.status = 200
    /\ \E k \in 1..Len(net) :
          /\ net[k].op = "Update"
          /\ net[k].stage = "answered"
          /\ net[k].status = 200
          /\ net[k].id = resp.body.rows[1].id
          /\ net[k].body.rows[1].text # resp.body.rows[1].text
          /\ net[k].body.rows[1] \in table
          /\ \E j \in 1..Len(submissions) :
                /\ submissions[j].id = net[k].id
                /\ submissions[j] \in SeedRows

\* C26: nothing in onSubmit blocks re-entry. Invoked on a valid form while a
\* submission is pending, it issues one more Create and leaves the pending
\* requests in flight; and when the server processes a Create whose twin (same
\* text, still undelivered) was answered 201, it is answered 201 too and the
\* table holds two distinct rows with that text.
C26_DoubleSubmit ==
    [][/\ (isSubmitting /\ ~FormInvalid(textControl) /\ onSubmit) =>
            /\ Len(net') = Len(net) + 1
            /\ SubSeq(net', 1, Len(net)) = net
            /\ net'[Len(net')].op = "Create"
            /\ net'[Len(net')].stage = "sent"
            /\ net'[Len(net')].text = Trim(textControl)
       /\ \A j, k \in 1..MaxInFlight :
            ( /\ j \in 1..Len(net) /\ k \in 1..Len(net) /\ j # k
              /\ net[j].op = "Create" /\ net[j].stage = "answered"
              /\ net[j].status = 201
              /\ net[k].op = "Create" /\ net[k].stage = "sent"
              /\ net[k].text = net[j].text
              /\ ServerHandle(k, TRUE) ) =>
                /\ net'[k].status = 201
                /\ net'[k].body.rows[1] \in table'
                /\ net[j].body.rows[1] \in table'
                /\ net'[k].body.rows[1].id # net[j].body.rows[1].id
                /\ net'[k].body.rows[1].text = net[j].body.rows[1].text]_vars

\* two Creates of one text were issued back to back and both were answered 201
C26_Witness ==
    /\ Len(net) = 2
    /\ isSubmitting
    /\ \A k \in 1..2 :
          /\ net[k].op = "Create"
          /\ net[k].stage = "answered"
          /\ net[k].status = 201
          /\ net[k].body.rows[1] \in table
    /\ net[1].text = net[2].text
    /\ net[1].body.rows[1].id # net[2].body.rows[1].id
    /\ net[1].body.rows[1].text = net[2].body.rows[1].text
    /\ Cardinality(table) = 2

\* C27: while a row is being edited, the edit state (editingId, editText) is
\* changed only by cancelEdit, by startEdit, by the user typing in the edit
\* box, or by the success response to a saveEdit of the row being edited; the
\* response to a saveEdit of another row leaves it untouched.
C27_EditStateOwnedByEditedRow ==
    [][(editingId # null /\ <<editingId, editText>>' # <<editingId, editText>>) =>
          \/ cancelEdit
          \/ \E k \in 1..Cardinality(SeedRows) : startEdit(k)
          \/ \E t \in EditTexts : TypeEditText(t)
          \/ \E k \in 1..MaxInFlight :
                /\ Delivered(k, "Update")
                /\ IsSuccess(net[k].status)
                /\ net[k].id = editingId]_vars

\* C27, as the code has it: while a row is being edited, the edit state is
\* changed only by cancelEdit, by startEdit, by the user typing in the edit box,
\* or by the success response to any saveEdit; and the success response to a
\* saveEdit always ends editing (editingId null, editText empty), whichever row
\* is being edited when it arrives.
C27_AnyUpdateSuccessEndsEdit ==
    [][/\ (editingId # null /\ <<editingId, editText>>' # <<editingId, editText>>) =>
             \/ cancelEdit
             \/ \E k \in 1..Cardinality(SeedRows) : startEdit(k)
             \/ \E t \in EditTexts : TypeEditText(t)
             \/ \E k \in 1..MaxInFlight :
                   Delivered(k, "Update") /\ IsSuccess(net[k].status)
       /\ \A k \in 1..MaxInFlight :
             (Delivered(k, "Update") /\ IsSuccess(net[k].status)) =>
                 /\ editingId' = null
                 /\ editText' = Str(0, "", 0, 0)]_vars

\* row b is being edited with typed text while the 200 response to a saveEdit
\* of another row a is about to be delivered
C27_Witness ==
    /\ editingId # null
    /\ editText \in EditTexts
    /\ \E k \in 1..Len(net) :
          /\ net[k].op = "Update"
          /\ net[k].stage = "answered"
          /\ net[k].status = 200
          /\ net[k].id # editingId

\* C28: editingId is null or the id of a row present in submissions.
C28_EditedRowInList ==
    editingId = null \/ \E j \in 1..Len(submissions) : submissions[j].id = editingId

\* C29: isLoading is true exactly when a ReadAll request issued by
\* loadSubmissions has not yet had its response delivered.
C29_LoadingIffLoadInFlight ==
    isLoading <=> \E k \in 1..Len(net) : net[k].op = "ReadAll"

\* C30: every Create request the form has issued carries a text whose length
\* is between 10 and 50 characters.
C30_SentTextWithinBounds ==
    \A k \in 1..Len(net) :
        net[k].op = "Create" =>
            /\ Length(net[k].text) >= FORM_TEXT_MIN_LENGTH
            /\ Length(net[k].text) <= FORM_TEXT_MAX_LENGTH

====
